---- MODULE Spec2Model ----
(***************************************************************************)
(* Forecast leverage SDK: the leverage-loop execution engine of            *)
(* ForecastLeverageSDK (src/src/errors.ts).                                *)
(*                                                                         *)
(* The source file holds several revisions of the class.  Two of them are  *)
(* modelled and selected by the variable rev:                              *)
(*   rev = 1  lines 143-728   (runway check, loop count capped at 10)      *)
(*   rev = 2  lines 873-1667  (F check, uncapped loop count, order retry)  *)
(*                                                                         *)
(* Numbers.  JavaScript numbers are modelled as exact rationals on fixed   *)
(* grids: prices in 1/PriceOne, the quoted factor F in 1/FDen, the quoted  *)
(* rates in 1/RDen, token and USDC amounts in base units (1e6 per unit).   *)
(* Math.log is modelled by a table of its values in 1e-6.                  *)
(***************************************************************************)
EXTENDS Integers, Sequences, FiniteSets, TLC

VARIABLES
  rev,        \* which revision of the class is instantiated
  pc,         \* position of the running call
  op,         \* "none", "open" (openTargetPosition) or "simulate" (simulatePosition)
  params,     \* TargetPositionParams of the running call
  lev,        \* LeverageParams computed by calculateLeverageParams
  legIds,     \* legIds of the leverage loop
  remainingUSDC,      \* spendable capital of the next iteration (base units)
  totalTokensBought,  \* tokens bought so far (base units)
  iter,       \* loop index i of the leverage loop
  buyTokens,  \* tokensReceived of the current iteration's buy
  result,     \* what the call gave back: nothing yet, a position or an error
  chain,      \* the environment: protocol, token contracts, venue, and what they saw
  hist,       \* history of the call (ghost): first failure inside the loop
  totalSlippage,  \* slippage accumulated by the leverage loop (1e-6 USDC)
  buy,        \* one call of the retry-enabled buyTokensPolymarket
  close,      \* one call of closePosition
  inst        \* the instance's venue client, and the callers that set it up

vars == << rev, pc, op, params, lev, legIds, remainingUSDC, totalTokensBought,
           iter, buyTokens, result, chain, hist, totalSlippage, buy, close, inst >>

\* the state of the operations that are modelled as calls of their own
unit == << buy, close, inst >>

----------------------------------------------------------------------------
(* Scales and program constants *)

PriceOne == 100          \* the price 1.00 on the price grid
FDen == 20               \* quote.F / 1e18 on a grid of 1/20
RDen == 10               \* quote.rS, quote.rJ / 1e18 on a grid of 1/10
USDC == 1000000          \* 1e6 base units per USDC / per token
SimUnit == 1000          \* simulatePosition: amounts on a grid of 1/1000
MinTimeframe == 60
MinCapital == 10
MaxSlippage == 5000
LoopCap == 10            \* rev 1: Math.min(..., 10)
YEAR_SECONDS == 365 * 24 * 3600
MinusInfinity == 0 - 1000000000   \* the JavaScript number -Infinity
NaN == 0 - 2000000000             \* the JavaScript number NaN

\* JavaScript comparisons: every comparison with NaN is false
JsLt(a, b) == a # NaN /\ b # NaN /\ a < b
JsGt(a, b) == a # NaN /\ b # NaN /\ a > b
JsLe(a, b) == a # NaN /\ b # NaN /\ a <= b

----------------------------------------------------------------------------
(* Errors *)

NoError == [kind |-> "none", msg |-> ""]
ValidationError(m) == [kind |-> "ValidationError", msg |-> m]
PolymarketError(m) == [kind |-> "PolymarketError", msg |-> m]
ProtocolError(m) == [kind |-> "ProtocolError", msg |-> m]
PlainError(m) == [kind |-> "Error", msg |-> m]

MsgDirectionYes == "Invalid price direction: LONG YES requires targetPrice > currentPrice"
MsgDirectionNo == "Invalid price direction: LONG NO requires targetPrice < currentPrice"
MsgNoLegs == "Failed to open any position legs"

\* message.includes('price direction')
MentionsPriceDirection(m) == m \in {MsgDirectionYes, MsgDirectionNo}

----------------------------------------------------------------------------
(* validateInputs *)

\* String.prototype.startsWith('0x') on a string given as its characters
StartsWith0x(s) == Len(s) >= 2 /\ s[1] = "0" /\ s[2] = "x"

\* validateInputs without the marketConditionId check
validateInputsNoMarketCheck(p) ==
  IF p.currentPrice <= 0 \/ p.currentPrice >= PriceOne
    THEN ValidationError("Invalid currentPrice")
  ELSE IF p.targetPrice <= 0 \/ p.targetPrice >= PriceOne
    THEN ValidationError("Invalid targetPrice")
  ELSE IF p.longYes /\ p.targetPrice <= p.currentPrice
    THEN ValidationError(MsgDirectionYes)
  ELSE IF ~p.longYes /\ p.targetPrice >= p.currentPrice
    THEN ValidationError(MsgDirectionNo)
  ELSE IF p.timeframeSeconds <= 0
    THEN ValidationError("Invalid timeframe: must be > 0")
  ELSE IF p.timeframeSeconds < MinTimeframe
    THEN ValidationError("Invalid timeframe: too short")
  ELSE IF p.timeframeSeconds > YEAR_SECONDS
    THEN ValidationError("Invalid timeframe: too long")
  ELSE IF p.capitalUSDC <= 0
    THEN ValidationError("Invalid capital: must be > 0")
  ELSE IF p.capitalUSDC < MinCapital
    THEN ValidationError("Invalid capital: minimum")
  ELSE IF JsLt(p.maxSlippageBps, 0) \/ JsGt(p.maxSlippageBps, MaxSlippage)
    THEN ValidationError("Invalid slippage")
  ELSE NoError

\* validateInputs with the direction checks made strict (equal prices pass)
validateInputsStrictDirection(p) ==
  IF Len(p.marketConditionId) = 0 \/ ~StartsWith0x(p.marketConditionId)
    THEN ValidationError("Invalid marketConditionId")
  ELSE IF p.currentPrice <= 0 \/ p.currentPrice >= PriceOne
    THEN ValidationError("Invalid currentPrice")
  ELSE IF p.targetPrice <= 0 \/ p.targetPrice >= PriceOne
    THEN ValidationError("Invalid targetPrice")
  ELSE IF p.longYes /\ p.targetPrice < p.currentPrice
    THEN ValidationError(MsgDirectionYes)
  ELSE IF ~p.longYes /\ p.targetPrice > p.currentPrice
    THEN ValidationError(MsgDirectionNo)
  ELSE IF p.timeframeSeconds <= 0
    THEN ValidationError("Invalid timeframe: must be > 0")
  ELSE IF p.timeframeSeconds < MinTimeframe
    THEN ValidationError("Invalid timeframe: too short")
  ELSE IF p.timeframeSeconds > YEAR_SECONDS
    THEN ValidationError("Invalid timeframe: too long")
  ELSE IF p.capitalUSDC <= 0
    THEN ValidationError("Invalid capital: must be > 0")
  ELSE IF p.capitalUSDC < MinCapital
    THEN ValidationError("Invalid capital: minimum")
  ELSE IF JsLt(p.maxSlippageBps, 0) \/ JsGt(p.maxSlippageBps, MaxSlippage)
    THEN ValidationError("Invalid slippage")
  ELSE NoError

\* validateInputs(params): the first failing check decides the error
validateInputs(p) ==
  IF Len(p.marketConditionId) = 0 \/ ~StartsWith0x(p.marketConditionId)
    THEN ValidationError("Invalid marketConditionId")
  ELSE IF p.currentPrice <= 0 \/ p.currentPrice >= PriceOne
    THEN ValidationError("Invalid currentPrice")
  ELSE IF p.targetPrice <= 0 \/ p.targetPrice >= PriceOne
    THEN ValidationError("Invalid targetPrice")
  ELSE IF p.longYes /\ p.targetPrice <= p.currentPrice
    THEN ValidationError(MsgDirectionYes)
  ELSE IF ~p.longYes /\ p.targetPrice >= p.currentPrice
    THEN ValidationError(MsgDirectionNo)
  ELSE IF p.timeframeSeconds <= 0
    THEN ValidationError("Invalid timeframe: must be > 0")
  ELSE IF p.timeframeSeconds < MinTimeframe
    THEN ValidationError("Invalid timeframe: too short")
  ELSE IF p.timeframeSeconds > YEAR_SECONDS
    THEN ValidationError("Invalid timeframe: too long")
  ELSE IF p.capitalUSDC <= 0
    THEN ValidationError("Invalid capital: must be > 0")
  ELSE IF p.capitalUSDC < MinCapital
    THEN ValidationError("Invalid capital: minimum")
  ELSE IF JsLt(p.maxSlippageBps, 0) \/ JsGt(p.maxSlippageBps, MaxSlippage)
    THEN ValidationError("Invalid slippage")
  ELSE NoError

----------------------------------------------------------------------------
(* calculateLeverageParams: loop count, runway *)

\* Math.ceil(a / b) for integers a, b with b # 0
CeilDiv(a, b) == IF b > 0 THEN 0 - ((0 - a) \div b) ELSE 0 - (a \div (0 - b))

\* Math.log(k / FDen) in 1e-6, k = 1 .. FDen - 1
LnTable ==
  << -2995732, -2302585, -1897120, -1609438, -1386294, -1203973, -1049822,
     -916291, -798508, -693147, -597837, -510826, -430783, -356675, -287682,
     -223144, -162519, -105361, -51293 >>
LnF(fN) == LnTable[fN]
LnTenth == 0 - 2302585       \* Math.log(0.1) in 1e-6
LnHundredth == 0 - 4605170   \* Math.log(0.01) in 1e-6

\* rev 1: Math.min(Math.ceil(Math.log(0.1) / Math.log(F)), 10)
\*   F = 0: Math.log(0) = -Infinity, the quotient is 0;
\*   F = 1: Math.log(1) = 0, the quotient is -Infinity.
LoopsRev1(fN) ==
  IF fN = 0 THEN 0
  ELSE IF fN = FDen THEN MinusInfinity
  ELSE LET n == CeilDiv(LnTenth, LnF(fN)) IN IF n < LoopCap THEN n ELSE LoopCap

\* rev 2: Math.ceil(-Math.log(0.01) / Math.log(F)), reached only for 0 < F < 1
LoopsRev2(fN) == CeilDiv(0 - LnHundredth, LnF(fN))

\* rev 1 validateRunway: termSeconds >= ((1 - F) / (F * R)) * YEAR_SECONDS * 0.95,
\* with F = fN/FDen and R = rN/RDen, cross-multiplied:
\*   term * (fN * rN * 20) >= ((FDen - fN) * RDen * 19) * YEAR_SECONDS
\* and evaluated in thousands of seconds to stay within machine integers.
RunwayExceeded(fN, rN, term) ==
  LET a == fN * rN * 20
      b == (FDen - fN) * RDen * 19
  IN  (term \div 1000) * a + ((term % 1000) * a) \div 1000
        >= b * (YEAR_SECONDS \div 1000)

validateRunway(fN, rN, term) ==
  IF rN = 0 THEN NoError
  ELSE IF RunwayExceeded(fN, rN, term)
    THEN ValidationError("Term exceeds safe runway")
  ELSE NoError

----------------------------------------------------------------------------
(* Inputs and environment outcomes *)

Revs == {1, 2}
Markets == { << >>, <<"i", "n">>, <<"0", "x", "7", "c">> }
Prices == {0, 40, 44, PriceOne}
Timeframes == {0, 59, 60, 15767999, 15768000, YEAR_SECONDS, YEAR_SECONDS + 1}
Capitals == {0, 5, 10, 1000}
Slippages == {0 - 1, 0, 5000, 5001, NaN}

ParamSpace ==
  [marketConditionId : Markets, longYes : BOOLEAN, currentPrice : Prices,
   targetPrice : Prices, timeframeSeconds : Timeframes, capitalUSDC : Capitals,
   maxSlippageBps : Slippages]

NoParams ==
  [marketConditionId |-> << >>, longYes |-> FALSE, currentPrice |-> 0,
   targetPrice |-> 0, timeframeSeconds |-> 0, capitalUSDC |-> 0,
   maxSlippageBps |-> 0]

\* protocol quote(1, term, conditionId, longYes): F, rS, rJ on their grids
QuoteFs == {0, 2, 10, 18, 19, FDen}
MaxQuoteRate == 1
QuoteRates == 0 .. MaxQuoteRate
Quotes == [F : QuoteFs, rS : QuoteRates, rJ : QuoteRates]

NoLev ==
  [F |-> 0, rS |-> 0, rJ |-> 0, loops |-> 0, maxLeverageNum |-> 0,
   maxLeverageDen |-> 0]

\* wallet balances (base units) the USDC contract may report
WalletBalances == {0, 500000, 5 * USDC, 10 * USDC + USDC \div 4}

\* the fields of a LeveragePosition that calculatePositionMetrics derives:
\* totalExposure in 1/SimUnit token, effectiveLeverage in 1/100, money in
\* 1e-6 USDC, breakeven = price + num / den kept as the exact quotient
NoMetrics ==
  [totalExposure |-> 0, effectiveLeverage |-> 0,
   fees |-> [protocolSenior |-> 0, protocolJunior |-> 0,
             polymarketSlippage |-> 0, gas |-> 0, total |-> 0],
   pnl |-> [atTarget |-> 0, breakeven |-> [price |-> 0, num |-> 0, den |-> 0]]]

NoResult ==
  [kind |-> "none", err |-> NoError, legIds |-> << >>, metrics |-> NoMetrics]
Thrown(e) ==
  [kind |-> "error", err |-> e, legIds |-> << >>, metrics |-> NoMetrics]
Position(ids, m) ==
  [kind |-> "position", err |-> NoError, legIds |-> ids, metrics |-> m]

NoQuote == [F |-> 0, rS |-> 0, rJ |-> 0]

\* history of the call: the first failure inside the loop (iteration, 1-based,
\* step and error), the quote the protocol gave, the outcome of the read-back,
\* and whether validateInputs accepted or rejected the parameters
NoHist ==
  [failIter |-> 0, failStep |-> "none", failErr |-> NoError,
   quoted |-> FALSE, quote |-> NoQuote, readback |-> "none",
   validated |-> "none"]

Chain0 ==
  [io |-> FALSE,      \* some network call (venue, RPC read or transaction) was made
   txs |-> 0,         \* transactions submitted from the signer
   orders |-> 0,      \* orders placed at the venue
   nextLegId |-> 1,   \* the protocol's next leg identifier
   legs |-> << >>,    \* identifiers of the legs the protocol opened, in order
   inFlight |-> 0,    \* transactions of the call that may still be unconfirmed
   overlap |-> FALSE, \* one was submitted while an earlier one was unconfirmed
   receipt |-> [sent |-> FALSE, sets |-> 0, status |-> 0, event |-> 0],
   lastOrder |-> [iter |-> 0, amount |-> 0, filled |-> FALSE, tokens |-> 0],
   balance |-> 0,
   verifiedBefore |-> FALSE,  \* verifyMarket met a market verified earlier
   collateral |-> 0,  \* tokens handed over in the leg openings that succeeded
   start |-> 0,       \* the signer's USDC when the call checked the balance
   borrowed |-> 0]    \* USDC the last opened leg's borrow paid to the signer
                      \* the last openProtocolLeg call: whether it submitted an
                      \* open transaction, for how many sets, the receipt's
                      \* status and the leg id of its LegOpened event (0: none);
                      \* lastOrder: the last order the loop placed, for which
                      \* iteration and USDC amount, and what it filled;
                      \* balance: the last USDC balance the loop read

\* the signer submits a transaction while `still` of the earlier ones of the
\* call are unconfirmed; `awaited`: the SDK then awaits tx.wait(), which
\* returns once the transaction, and so every earlier one of the signer, is
\* mined.  Without tx.wait() the await ends when the node took the transaction.
Submitted(c, still, awaited) ==
  [c EXCEPT !.io = TRUE, !.txs = @ + 1,
            !.overlap = @ \/ still > 0,
            !.inFlight = IF awaited THEN 0 ELSE still + 1]

----------------------------------------------------------------------------
(* The outer catch of openTargetPosition and of simulatePosition *)

Typed(e) == e.kind \in {"ValidationError", "PolymarketError", "ProtocolError"}

\* an outer catch that wraps every error
OpenCatchWrapAll(e) == ProtocolError("Position opening failed")

\* openTargetPosition: catch (error) { typed => rethrow; else ProtocolError }
OpenCatch(e) == IF Typed(e) THEN e ELSE ProtocolError("Position opening failed")

\* simulatePosition: catch (error) { ValidationError => rethrow; else Error }
SimulateCatch(e) ==
  IF e.kind = "ValidationError" THEN e ELSE PlainError("Simulation failed")

OuterCatch(o, e) == IF o = "open" THEN OpenCatch(e) ELSE SimulateCatch(e)

\* no call of buyTokensPolymarket is running.  A running call keeps its
\* arguments, the loop index `attempt`, lastError, the best ask and the order
\* of the current attempt, and the log of what it did at the venue; of the
\* fill wait of the current attempt it keeps the number of polls made,
\* whether one of them threw, and the answer that ended the wait.  The venue
\* side keeps venueFilled, the orders of the call that a poll showed as
\* matched.
NoObservation == [status |-> "none", confirmed |-> FALSE]
NoBuy ==
  [usdcAmount |-> 0, maxRetries |-> 0, attempt |-> 0, lastError |-> NoError,
   bestAskPrice |-> 0, orderID |-> 0, log |-> << >>,
   polls |-> 0, pollErrors |-> FALSE, observed |-> NoObservation,
   venueFilled |-> {}]

\* no call of closePosition is running.  A running call keeps its argument,
\* the index of the leg at hand, balanceBefore and totalUSDC; the chain side
\* keeps the signer's USDC balance, the close transactions submitted and not
\* yet mined, and the legs closed.  invoked, failed and credited are history:
\* the legs close() was called for, the positions whose close failed, and
\* the USDC the mined close transactions credited.
NoClose ==
  [legIds |-> << >>, idx |-> 1, balanceBefore |-> 0, totalUSDC |-> 0,
   balance |-> 0, pending |-> << >>, closed |-> {},
   invoked |-> << >>, failed |-> {}, credited |-> 0, calls |-> 0]

\* what the calls of the leverage loop leave alone in buy and close calls
loopVars ==
  << rev, params, lev, legIds, remainingUSDC, totalTokensBought, totalSlippage,
     iter, hist, inst >>

\* the callers that reach setupPolymarket on one instance
Callers == {"setupPolymarket", "simulatePosition", "openTargetPosition"}

\* constructor: polymarketClient = null, polymarketInitialized = false; no
\* caller has started
NoInst ==
  [polymarketInitialized |-> FALSE,
   polymarketClient |-> 0,   \* 0 is null, n the n-th authenticated client
   derivations |-> 0,        \* createOrDeriveApiKey requests made
   failures |-> 0,           \* of which failed
   onNull |-> FALSE,         \* a venue operation was invoked on null
   at |-> [c \in Callers |-> "idle"]]

Init ==
  /\ rev \in Revs
  /\ pc = "idle"
  /\ op = "none"
  /\ params = NoParams
  /\ lev = NoLev
  /\ legIds = << >>
  /\ remainingUSDC = 0
  /\ totalTokensBought = 0
  /\ iter = 0
  /\ buyTokens = 0
  /\ result = NoResult
  /\ chain = Chain0
  /\ hist = NoHist
  /\ totalSlippage = 0
  /\ buy = NoBuy
  /\ close = NoClose
  /\ inst = NoInst

\* the call ends by throwing e to the caller
Throw(e) ==
  /\ pc' = "done"
  /\ result' = Thrown(e)

\* the caller invokes openTargetPosition(p) or simulatePosition(p)
Call ==
  /\ pc = "idle"
  /\ \E o \in {"open", "simulate"}, p \in ParamSpace :
       /\ op' = o
       /\ params' = p
  /\ pc' = "validate"
  /\ UNCHANGED unit
  /\ UNCHANGED << rev, lev, legIds, remainingUSDC, totalTokensBought, totalSlippage, iter,
                  buyTokens, result, chain, hist >>

\* a simulatePosition that continues like openTargetPosition after the setup
AfterSetupAsOpen == "balance"

\* where the call goes after validateInputs (and, in rev 2, setupPolymarket)
AfterSetup == IF op = "open" THEN "balance" ELSE "quote"

\* this.validateInputs(params), before the try block
ValidateInputs ==
  /\ pc = "validate"
  /\ LET e == validateInputs(params) IN
       IF e # NoError
         THEN /\ Throw(e)
              /\ hist' = [hist EXCEPT !.validated = "rejected"]
         ELSE /\ pc' = IF rev = 2 THEN "setup" ELSE AfterSetup
              /\ hist' = [hist EXCEPT !.validated = "accepted"]
              /\ UNCHANGED result
  /\ UNCHANGED unit
  /\ UNCHANGED << rev, op, params, lev, legIds, remainingUSDC, totalTokensBought, totalSlippage,
                  iter, buyTokens, chain >>

\* rev 2: await this.setupPolymarket(), before the try block
SetupPolymarket ==
  /\ pc = "setup"
  /\ chain' = [chain EXCEPT !.io = TRUE]
  /\ \E ok \in BOOLEAN :
       IF ok
         THEN /\ pc' = AfterSetup
              /\ UNCHANGED result
         ELSE Throw(PlainError("createOrDeriveApiKey failed"))
  /\ UNCHANGED unit
  /\ UNCHANGED << rev, op, params, lev, legIds, remainingUSDC, totalTokensBought, totalSlippage,
                  iter, buyTokens, hist >>

\* checkSufficientBalance(params.capitalUSDC)
CheckSufficientBalance ==
  /\ pc = "balance"
  /\ \E readOk \in BOOLEAN, balance \in WalletBalances :
       IF ~readOk
         THEN /\ chain' = [chain EXCEPT !.io = TRUE]
              /\ Throw(OpenCatch(PlainError("balanceOf failed")))
       ELSE IF balance < params.capitalUSDC * USDC
         THEN /\ chain' = [chain EXCEPT !.io = TRUE]
              /\ Throw(OpenCatch(ValidationError("Insufficient USDC balance")))
       ELSE /\ pc' = "verify"
            /\ chain' = [chain EXCEPT !.io = TRUE, !.start = balance,
                                      !.balance = balance]
            /\ UNCHANGED result
  /\ UNCHANGED unit
  /\ UNCHANGED << rev, op, params, lev, legIds, remainingUSDC, totalTokensBought, totalSlippage,
                  iter, buyTokens, hist >>

\* the protocol's verifyMarket accepts a market that was not verified before
\* and meets the structural criteria (binary, unresolved, known to the CTF)
MarketAccepted(verified, structural) == ~verified /\ structural

\* verifyMarket(conditionId): protocolContract.verifyMarket is a transaction
\* of the signer; it is submitted when the call succeeds, and not awaited
VerifyMarket ==
  /\ pc = "verify"
  /\ \E verified \in BOOLEAN, structural \in BOOLEAN :
       IF MarketAccepted(verified, structural)
         THEN /\ chain' = Submitted(chain, 0, FALSE)
              /\ pc' = "quote"
              /\ UNCHANGED result
         ELSE /\ chain' = [chain EXCEPT !.io = TRUE, !.verifiedBefore = verified]
              /\ Throw(OpenCatch(ValidationError("Invalid market")))
  /\ UNCHANGED unit
  /\ UNCHANGED << rev, op, params, lev, legIds, remainingUSDC, totalTokensBought, totalSlippage,
                  iter, buyTokens, hist >>

\* loops of calculateLeverageParams
calculateLoops(r, fN) == IF r = 1 THEN LoopsRev1(fN) ELSE LoopsRev2(fN)

\* the checks calculateLeverageParams makes on the quote before deriving loops:
\* rev 1 validateRunway(F, R, term); rev 2 the bounds of F
checkQuote(r, q, term) ==
  IF r = 1 THEN validateRunway(q.F, q.rS + q.rJ, term)
  ELSE IF q.F <= 0 \/ q.F >= FDen
    THEN ValidationError("Invalid capital efficiency factor")
  ELSE NoError

\* the LeverageParams record: maxLeverage = 1 / (1 - F) as the fraction
\* maxLeverageNum / maxLeverageDen (a zero denominator is Infinity)
leverageParams(r, q) ==
  [F |-> q.F, rS |-> q.rS, rJ |-> q.rJ, loops |-> calculateLoops(r, q.F),
   maxLeverageNum |-> FDen, maxLeverageDen |-> FDen - q.F]

\* calculateLeverageParams(params): quote read, checks, loops, token id read
CalculateLeverageParams ==
  /\ pc = "quote"
  /\ chain' = [chain EXCEPT !.io = TRUE]
  /\ \E reads \in {"ok", "quoteFails", "tokenIdFails"}, q \in Quotes :
       IF reads = "quoteFails"
         THEN /\ Throw(OuterCatch(op, PlainError("quote failed")))
              /\ UNCHANGED << lev, hist >>
       ELSE /\ hist' = [hist EXCEPT !.quoted = TRUE, !.quote = q]
            /\ IF checkQuote(rev, q, params.timeframeSeconds) # NoError
                 THEN /\ Throw(OuterCatch(op, checkQuote(rev, q, params.timeframeSeconds)))
                      /\ UNCHANGED lev
               ELSE IF reads = "tokenIdFails"
                 THEN /\ Throw(OuterCatch(op, PlainError("positionId failed")))
                      /\ UNCHANGED lev
               ELSE /\ lev' = leverageParams(rev, q)
                    /\ pc' = IF op = "open" THEN "approve" ELSE "simloop"
                    /\ UNCHANGED result
  /\ UNCHANGED unit
  /\ UNCHANGED << rev, op, params, legIds, remainingUSDC, totalTokensBought, totalSlippage,
                  iter, buyTokens >>

\* for (let i = ...; i < leverageParams.loops; ...): the loop test
LoopTest(i, loops) == IF i < loops THEN "buy" ELSE "after"

\* the chain after setupApprovals submitted `submitted` of its two
\* transactions, still1 and still2 earlier ones being unconfirmed at the
\* first and at the second submission: rev 2 awaits tx1.wait() and
\* tx2.wait(), rev 1 awaits neither
Approved(r, c, submitted, still1, still2) ==
  LET c1 == Submitted(c, still1, r = 2)
      c2 == Submitted(c1, IF r = 2 THEN 0 ELSE still2, r = 2)
  IN  IF submitted = 0 THEN [c EXCEPT !.io = TRUE]
      ELSE IF submitted = 1 THEN c1
      ELSE c2

\* setupApprovals(): approve and setApprovalForAll, two transactions of the
\* signer; on success the loop state is initialised
SetupApprovals ==
  /\ pc = "approve"
  /\ \E ok \in BOOLEAN, submitted \in 0 .. 2, still1 \in 0 .. chain.inFlight,
        still2 \in 0 .. chain.inFlight + 1 :
       /\ ok => submitted = 2
       /\ (~ok /\ rev = 1) => submitted < 2
       /\ still2 <= still1 + 1
       /\ chain' = Approved(rev, chain, submitted, still1, still2)
       /\ IF ok
            THEN /\ legIds' = << >>
                 /\ remainingUSDC' = params.capitalUSDC * USDC
                 /\ totalTokensBought' = 0
                 /\ totalSlippage' = 0
                 /\ iter' = 0
                 /\ pc' = LoopTest(0, lev.loops)
                 /\ UNCHANGED result
            ELSE /\ Throw(OpenCatch(PlainError("approval failed")))
                 /\ UNCHANGED << legIds, remainingUSDC, totalTokensBought, totalSlippage, iter >>
  /\ UNCHANGED unit
  /\ UNCHANGED << rev, op, params, lev, buyTokens, hist >>

\* Math.floor(x * n / d) without intermediate overflow
MulDivFloor(x, n, d) == (x \div d) * n + ((x % d) * n) \div d

\* a loop catch that rethrows whatever was opened before
LoopCatchRethrow(step, e) ==
  /\ hist' = [hist EXCEPT !.failIter = iter + 1, !.failStep = step, !.failErr = e]
  /\ Throw(OpenCatch(e))

\* the catch inside the loop: with a leg already opened, break; else rethrow
\* (the rethrown error passes the outer catch)
LoopCatch(step, e) ==
  /\ hist' = [hist EXCEPT !.failIter = iter + 1, !.failStep = step, !.failErr = e]
  /\ IF Len(legIds) > 0
       THEN /\ pc' = "after"
            /\ UNCHANGED result
       ELSE Throw(OpenCatch(e))

Asks == {0, 50, PriceOne}
TinyFill == USDC \div 2      \* a fill of half a token

\* the outcome of one buyTokensPolymarket call, from what the venue answers:
\* an error, or the tokens received
buyTokensPolymarket(usdcAmount, book, ask, post, fill, size) ==
  IF book = "error" THEN PolymarketError("Order failed")
  ELSE IF book = "empty" THEN PolymarketError("No liquidity available")
  ELSE IF ask <= 0 \/ ask >= PriceOne THEN PolymarketError("Invalid orderbook price")
  ELSE IF post = "error" THEN PolymarketError("Order failed")
  ELSE IF post = "noOrderId" THEN PolymarketError("Failed to create order")
  ELSE IF fill = "timeout" THEN PolymarketError("Order failed")
  ELSE [kind |-> "filled",
        msg |-> "",
        tokens |-> IF size = "full" THEN MulDivFloor(usdcAmount, PriceOne, ask)
                   ELSE TinyFill,
        \* (actualPrice - bestAsk) * order.size = usdcAmount / 1e6 - bestAsk * size
        slippage |-> IF size = "full" THEN 0
                     ELSE usdcAmount - (ask * TinyFill) \div PriceOne]

\* the order reached the venue
OrderPlaced(book, ask, post) ==
  book = "asks" /\ ask > 0 /\ ask < PriceOne /\ post # "error"

\* 3a. buyTokensPolymarket(tokenId, remainingUSDC, maxSlippageBps)
BuyTokens ==
  /\ pc = "buy"
  /\ \E book \in {"error", "empty", "asks"}, ask \in Asks,
        post \in {"error", "noOrderId", "ok"}, fill \in {"timeout", "filled"},
        size \in {"full", "tiny"} :
       LET r == buyTokensPolymarket(remainingUSDC, book, ask, post, fill, size) IN
         /\ chain' = [chain EXCEPT !.io = TRUE,
                        !.orders = IF OrderPlaced(book, ask, post) THEN @ + 1 ELSE @,
                        !.lastOrder =
                           IF OrderPlaced(book, ask, post)
                             THEN [iter |-> iter, amount |-> remainingUSDC,
                                   filled |-> r.kind = "filled",
                                   tokens |-> IF r.kind = "filled" THEN r.tokens
                                              ELSE 0]
                           ELSE @]
         /\ IF r.kind = "filled"
              THEN /\ buyTokens' = r.tokens
                   /\ totalTokensBought' = totalTokensBought + r.tokens
                   /\ totalSlippage' = totalSlippage + r.slippage
                   /\ pc' = "leg"
                   /\ UNCHANGED << result, hist >>
              ELSE /\ LoopCatch("buy", r)
                   /\ UNCHANGED << buyTokens, totalTokensBought, totalSlippage >>
  /\ UNCHANGED unit
  /\ UNCHANGED << rev, op, params, lev, legIds, remainingUSDC, iter >>

\* const sets = Math.floor(tokenAmount / 1e6)
Sets(tokenAmount) == tokenAmount \div USDC

\* what the open transaction of openProtocolLeg came to: not submitted (no
\* set, or the node rejected it), or mined with a receipt; the protocol
\* gives a leg it opens the identifier legId and says so in LegOpened
Receipt(tokenAmount, answer, legId) ==
  IF Sets(tokenAmount) = 0 \/ answer \notin {"receiptFailed", "noEvent", "ok"}
    THEN Chain0.receipt
  ELSE [sent |-> TRUE, sets |-> Sets(tokenAmount),
        status |-> IF answer = "receiptFailed" THEN 0 ELSE 1,
        event |-> IF answer = "ok" THEN legId ELSE 0]

\* a leg id read from the wrong place of the receipt
LegIdFromStatus(receipt) == receipt.status

\* BigNumber.from(legOpenedEvent.topics[1]).toBigInt()
LegIdOf(receipt) == receipt.event

\* the outcome of openProtocolLeg for what the protocol answers
openProtocolLeg(tokenAmount, answer) ==
  IF Sets(tokenAmount) = 0 THEN ProtocolError("Insufficient tokens")
  ELSE IF answer = "revertInsufficient" THEN ProtocolError("Insufficient protocol liquidity")
  ELSE IF answer = "revertPaused" THEN ProtocolError("Protocol is paused")
  ELSE IF answer = "revertOther" THEN ProtocolError("Failed to open position")
  ELSE IF answer = "receiptFailed" THEN ProtocolError("Transaction failed")
  ELSE IF answer = "noEvent" THEN ProtocolError("LegOpened event not found")
  ELSE NoError

\* 3b. openProtocolLeg(buyResult.tokensReceived, ...); legIds.push(legId)
OpenLeg ==
  /\ pc = "leg"
  /\ \E answer \in {"revertInsufficient", "revertPaused", "revertOther",
                    "receiptFailed", "noEvent", "ok"},
        still \in 0 .. chain.inFlight :
       LET e == openProtocolLeg(buyTokens, answer)
           rc == Receipt(buyTokens, answer, chain.nextLegId)
       IN
         IF e = NoError
           THEN /\ legIds' = Append(legIds, LegIdOf(rc))
                /\ chain' = [Submitted(chain, still, TRUE) EXCEPT
                               !.nextLegId = @ + 1,
                               !.legs = Append(@, chain.nextLegId),
                               !.collateral = @ + buyTokens,
                               !.receipt = rc]
                /\ pc' = "readback"
                /\ UNCHANGED << result, hist >>
           ELSE /\ chain' = IF rc.sent
                              THEN [Submitted(chain, still, TRUE) EXCEPT !.receipt = rc]
                            ELSE [chain EXCEPT !.io = (@ \/ Sets(buyTokens) # 0),
                                               !.receipt = rc]
                /\ LoopCatch("leg", e)
                /\ UNCHANGED legIds
  /\ UNCHANGED unit
  /\ UNCHANGED << rev, op, params, lev, remainingUSDC, totalTokensBought, totalSlippage, iter,
                  buyTokens >>

\* USDC (base units) the borrow of an opened leg pays to the signer
LoopBalances == {500000, 5 * USDC}

\* the signer's USDC after an iteration: what the wallet held, less the
\* order that was filled, plus what the leg borrowed
WalletAfter(c, borrowed) == c.balance - c.lastOrder.amount + borrowed

\* a carry-forward estimated from the tokens bought, as the simulation does
CarryForwardEstimated(usdcBalance, tokens, fN) == MulDivFloor(tokens, fN, FDen)

\* remainingUSDC = Number(usdcBalance)
CarryForward(usdcBalance, tokens, fN) == usdcBalance

\* a threshold of one base unit, as the simulation has it
BelowOneBaseUnit(remaining) == remaining < 1

\* if (remainingUSDC < 1e6) break
BelowThreshold(remaining) == remaining < USDC

\* 3c. remainingUSDC = balanceOf(signer); below 1 USDC the loop breaks
ReadBalance ==
  /\ pc = "readback"
  /\ \E readOk \in BOOLEAN, borrowed \in LoopBalances :
       LET balance == WalletAfter(chain, borrowed) IN
       IF ~readOk
         THEN /\ chain' = [chain EXCEPT !.io = TRUE]
              /\ LoopCatch("balance", PlainError("balanceOf failed"))
              /\ UNCHANGED << remainingUSDC, iter >>
       ELSE /\ chain' = [chain EXCEPT !.io = TRUE, !.balance = balance,
                                      !.borrowed = borrowed]
            /\ remainingUSDC' = CarryForward(balance, buyTokens, lev.F)
            /\ UNCHANGED << result, hist >>
            /\ IF BelowThreshold(CarryForward(balance, buyTokens, lev.F))
                 THEN /\ pc' = "after"
                      /\ UNCHANGED iter
                 ELSE /\ iter' = iter + 1
                      /\ pc' = LoopTest(iter + 1, lev.loops)
  /\ UNCHANGED unit
  /\ UNCHANGED << rev, op, params, lev, legIds, totalTokensBought, totalSlippage, buyTokens >>

\* after the loop: if (legIds.length === 0) throw ProtocolError
AfterLoop ==
  /\ pc = "after"
  /\ IF Len(legIds) = 0
       THEN Throw(OpenCatch(ProtocolError(MsgNoLegs)))
       ELSE /\ pc' = "metrics"
            /\ UNCHANGED result
  /\ UNCHANGED unit
  /\ UNCHANGED << rev, op, params, lev, legIds, remainingUSDC, totalTokensBought, totalSlippage,
                  iter, buyTokens, chain, hist >>

----------------------------------------------------------------------------
(* simulatePosition: the estimated loop *)

\* remainingUSDC after one simulated iteration that bought `tokens`:
\* rev 1 tokensThisLoop * F * currentPrice; rev 2 tokensThisLoop * F
SimBorrow(r, tokens, fN, price) ==
  IF r = 1 THEN MulDivFloor(MulDivFloor(tokens, fN, FDen), price, PriceOne)
  ELSE MulDivFloor(tokens, fN, FDen)

\* the simulation loop from index i on; amounts in 1/SimUnit USDC and tokens
RECURSIVE SimLoop(_, _, _, _, _, _, _)
SimLoop(r, i, loops, total, rem, fN, price) ==
  IF ~(i < loops) THEN [totalTokens |-> total, remainingUSDC |-> rem]
  ELSE LET tokensThisLoop == MulDivFloor(rem, PriceOne, price)
           next == SimBorrow(r, tokensThisLoop, fN, price)
       IN  IF next < SimUnit
             THEN [totalTokens |-> total + tokensThisLoop, remainingUSDC |-> next]
             ELSE SimLoop(r, i + 1, loops, total + tokensThisLoop, next, fN, price)

\* Array.from({ length: loops }, (_, i) => BigInt(i)): a length below 0 gives []
DummyLegIds(loops) == [i \in 1 .. (IF loops > 0 THEN loops ELSE 0) |-> i - 1]

\* simulatePosition: the estimated loop and the dummy leg ids
SimulateLoop ==
  /\ pc = "simloop"
  /\ LET s == SimLoop(rev, 0, lev.loops, 0, params.capitalUSDC * SimUnit, lev.F,
                      params.currentPrice)
     IN  /\ totalTokensBought' = s.totalTokens
         /\ remainingUSDC' = s.remainingUSDC
  /\ legIds' = DummyLegIds(lev.loops)
  /\ pc' = "metrics"
  /\ UNCHANGED << totalSlippage, unit >>
  /\ UNCHANGED << rev, op, params, lev, iter, buyTokens, result, chain, hist >>

----------------------------------------------------------------------------
(* calculatePositionMetrics *)

\* JavaScript arithmetic: NaN propagates
JsAdd(a, b) == IF a = NaN \/ b = NaN THEN NaN ELSE a + b
JsSub(a, b) == IF a = NaN \/ b = NaN THEN NaN ELSE a - b

\* a * b = q * d + r with 0 <= r < d, for a, b >= 0 and d > 0, computed
\* without forming the product a * b
RECURSIVE MulDivQR(_, _, _)
MulDivQR(a, b, d) ==
  IF b = 0 THEN [q |-> 0, r |-> 0]
  ELSE LET h == MulDivQR(a, b \div 2, d)
           r2 == 2 * h.r + (IF b % 2 = 1 THEN a % d ELSE 0)
           q2 == 2 * h.q + (IF b % 2 = 1 THEN a \div d ELSE 0)
       IN  [q |-> q2 + r2 \div d, r |-> r2 % d]

\* what protocolContract.legs(id) returns: the zero record of a leg that
\* does not exist, or a leg opened with the quoted terms
LegSets == 250
NoLeg == [sets |-> 0, F |-> 0, rS |-> 0, rJ |-> 0, term |-> 0]
LiveLeg(l, term) ==
  [sets |-> LegSets, F |-> l.F, rS |-> l.rS, rJ |-> l.rJ, term |-> term]

\* legs.reduce((sum, leg) => sum + x, 0) / legs.length for n equal legs:
\* with no leg the quotient is 0 / 0
Average(x, n) == IF n = 0 THEN NaN ELSE (n * x) \div n

\* totalSets * avgF * avgR * (avgTerm / (365 * 24 * 3600)) in 1e-6 USDC
Interest(totalSets, avgF, avgR, avgTerm) ==
  IF avgF = NaN \/ avgR = NaN \/ avgTerm = NaN THEN NaN
  ELSE MulDivQR(totalSets * avgF * avgR * (USDC \div (FDen * RDen)), avgTerm,
                YEAR_SECONDS).q

\* gasUsed = legIds.length * 500000 at gasPrice (gwei), $1 per MATIC, in 1e-6 USDC
GasPerLeg == 500000
GasPricesGwei == {0, 30}
GasCost(n, gwei) == (n * GasPerLeg * gwei) \div 1000

\* the metrics of a position of n legs that all read as `leg`; exposure in
\* 1/SimUnit token, slippage in 1e-6 USDC
PositionMetrics(n, p, exposure, slippage, leg, gwei) ==
  LET totalSets == n * leg.sets
      avgF == Average(leg.F, n)
      avgRS == Average(leg.rS, n)
      avgRJ == Average(leg.rJ, n)
      avgTerm == Average(leg.term, n)
      seniorInterest == Interest(totalSets, avgF, avgRS, avgTerm)
      juniorInterest == Interest(totalSets, avgF, avgRJ, avgTerm)
      gasCostUSDC == GasCost(n, gwei)
      priceMove == p.targetPrice - p.currentPrice
      gross == priceMove * exposure * (USDC \div (PriceOne * SimUnit))
      pnlAtTarget ==
        JsSub(JsSub(JsSub(JsSub(gross, slippage), seniorInterest),
                    juniorInterest), gasCostUSDC)
      totalFees ==
        JsAdd(JsAdd(JsAdd(slippage, seniorInterest), juniorInterest), gasCostUSDC)
  IN  [totalExposure |-> exposure,
       effectiveLeverage |-> exposure \div (p.capitalUSDC * (SimUnit \div 100)),
       fees |-> [protocolSenior |-> seniorInterest,
                 protocolJunior |-> juniorInterest,
                 polymarketSlippage |-> slippage,
                 gas |-> gasCostUSDC,
                 total |-> totalFees],
       pnl |-> [atTarget |-> pnlAtTarget,
                breakeven |-> [price |-> p.currentPrice, num |-> totalFees,
                               den |-> exposure]]]

\* the totalTokens argument on the grid of 1/SimUnit token: openTargetPosition
\* passes base units, simulatePosition its estimate
Exposure(o, tokens) == IF o = "open" THEN tokens \div (USDC \div SimUnit) ELSE tokens

\* calculatePositionMetrics(legIds, ...): reads the legs and the fee data,
\* then builds the LeveragePosition that the call returns
CalculatePositionMetrics ==
  /\ pc = "metrics"
  /\ chain' = [chain EXCEPT !.io = TRUE]
  /\ \E readOk \in BOOLEAN, exists \in BOOLEAN, gwei \in GasPricesGwei :
       IF readOk
         THEN /\ (op = "open" => exists)
              /\ result' =
                   Position(legIds,
                     PositionMetrics(Len(legIds), params,
                       Exposure(op, totalTokensBought), totalSlippage,
                       IF exists THEN LiveLeg(lev, params.timeframeSeconds)
                       ELSE NoLeg,
                       gwei))
              /\ pc' = "done"
              /\ hist' = [hist EXCEPT !.readback = "ok"]
         ELSE /\ Throw(OuterCatch(op, PlainError("read failed")))
              /\ hist' = [hist EXCEPT !.readback = "failed"]
  /\ UNCHANGED unit
  /\ UNCHANGED << rev, op, params, lev, legIds, remainingUSDC, totalTokensBought, totalSlippage,
                  iter, buyTokens >>

----------------------------------------------------------------------------
(* buyTokensPolymarket with auto-retry (rev 2), called on its own *)

MaxRetries == 2            \* the largest maxRetries a call is made with
RetryDelayMs == 2000
BuyAmounts == {10 * USDC}
BuyAsks == {0, 50, 60, PriceOne}

\* messages of the errors the venue client throws
VenueMessages == {"Request timed out", "Invalid order payload"}

MsgNoLiquidity == "No liquidity available"
MsgInvalidPrice == "Invalid orderbook price"
MsgNoOrderId == "Failed to create order: no order ID returned"
MsgNotFilled == "Order failed to fill"

\* `Order failed: ${error.message}`
OrderFailed(m) ==
  IF m = "Invalid order payload" THEN "Order failed: Invalid order payload"
  ELSE "Order failed: Request timed out"

\* lastError.message.includes('No liquidity') || lastError.message.includes('Invalid')
IncludesNoLiquidity(m) == m \in {MsgNoLiquidity}
IncludesInvalid(m) == m \in {MsgInvalidPrice, "Invalid order payload",
                              "Order failed: Invalid order payload"}
Fundamental(m) == IncludesNoLiquidity(m) \/ IncludesInvalid(m)

\* a catch that keeps the error as it was thrown
BuyWrapNothing(e) == e

\* error instanceof PolymarketError ? error : new PolymarketError(`Order failed: ...`)
BuyWrap(e) ==
  IF e.kind = "PolymarketError" THEN e ELSE PolymarketError(OrderFailed(e.msg))

\* retryDelayMs * Math.pow(1.5, attempt)
RECURSIVE Pow(_, _)
Pow(b, n) == IF n = 0 THEN 1 ELSE b * Pow(b, n - 1)
\* a backoff that waits the same delay before every retry
BackoffDelayFixed(attempt) == RetryDelayMs

BackoffDelay(attempt) == (RetryDelayMs * Pow(3, attempt)) \div Pow(2, attempt)

\* one entry of the log of a buy call
Event(e, b, ask, id, msg) ==
  [e |-> e, a |-> b.attempt, ask |-> ask, id |-> id, msg |-> msg, ms |-> 0]
Logged(b, ev) == [b EXCEPT !.log = Append(@, ev)]

BuyResult == [kind |-> "bought", err |-> NoError, legIds |-> << >>,
              metrics |-> NoMetrics]

\* throw lastError || new PolymarketError(`Order failed after ... attempts`)
MsgExhausted == "Order failed after all attempts"
BuyExhausted(b) ==
  IF b.lastError # NoError THEN b.lastError ELSE PolymarketError(MsgExhausted)

\* the caller invokes buyTokensPolymarket(tokenId, usdcAmount, slippage, 'FOK', n);
\* with n < 0 the loop makes no attempt and the call throws at once
CallBuy ==
  /\ pc = "idle"
  /\ rev = 2
  /\ op' = "buy"
  /\ \E amount \in BuyAmounts, n \in (0 - 1) .. MaxRetries :
       /\ buy' = [NoBuy EXCEPT !.usdcAmount = amount, !.maxRetries = n]
       /\ IF 0 <= n
            THEN /\ pc' = "book"
                 /\ UNCHANGED result
            ELSE Throw(BuyExhausted(NoBuy))
  /\ UNCHANGED << buyTokens, chain, close >>
  /\ UNCHANGED loopVars

\* the catch of an attempt that threw e, b being the call's state at the
\* throw: a fundamental error is rethrown; before the last attempt the
\* executor goes to its backoff wait; after the last one the loop ends and
\* lastError is thrown
BuyCatch(b, e) ==
  LET lastError == BuyWrap(e) IN
    /\ buy' = [Logged(b, Event("fail", b, 0, b.orderID, lastError.msg))
                 EXCEPT !.lastError = lastError]
    /\ IF Fundamental(lastError.msg) THEN Throw(lastError)
       ELSE IF b.attempt < b.maxRetries
         THEN /\ pc' = "backoff"
              /\ UNCHANGED result
       ELSE Throw(BuyExhausted([b EXCEPT !.lastError = lastError]))

\* polymarketClient.getOrderBook(tokenId) and the checks on the best ask
BuyGetOrderBook ==
  /\ pc = "book"
  /\ chain' = [chain EXCEPT !.io = TRUE]
  /\ \E answer \in {"error", "empty", "asks"}, m \in VenueMessages,
        ask \in BuyAsks :
       LET b == Logged(buy, Event("book", buy, IF answer = "asks" THEN ask ELSE 0,
                                  0, "")) IN
         IF answer = "error" THEN BuyCatch(b, PlainError(m))
         ELSE IF answer = "empty" THEN BuyCatch(b, PolymarketError(MsgNoLiquidity))
         ELSE IF ask <= 0 \/ ask >= PriceOne
           THEN BuyCatch(b, PolymarketError(MsgInvalidPrice))
         ELSE /\ buy' = [b EXCEPT !.bestAskPrice = ask, !.orderID = 0]
              /\ pc' = "post"
              /\ UNCHANGED result
  /\ UNCHANGED << op, buyTokens, close >>
  /\ UNCHANGED loopVars

\* polymarketClient.createAndPostOrder(...) with size and limit price from
\* bestAskPrice; the order id is the number of the order at the venue
BuyPostOrder ==
  /\ pc = "post"
  /\ \E answer \in {"error", "noOrderId", "ok"}, m \in VenueMessages :
       IF answer = "error"
         THEN /\ chain' = [chain EXCEPT !.io = TRUE]
              /\ BuyCatch(buy, PlainError(m))
       ELSE IF answer = "noOrderId"
         THEN /\ chain' = [chain EXCEPT !.io = TRUE]
              /\ BuyCatch(buy, PolymarketError(MsgNoOrderId))
       ELSE /\ chain' = [chain EXCEPT !.io = TRUE, !.orders = @ + 1]
            /\ buy' = [Logged(buy, Event("post", buy, buy.bestAskPrice,
                                          chain.orders + 1, ""))
                         EXCEPT !.orderID = chain.orders + 1]
            /\ pc' = "poll"
            /\ UNCHANGED result
  /\ UNCHANGED << op, buyTokens, close >>
  /\ UNCHANGED loopVars

\* a fill wait that goes straight to the retry
FillWaitNextNoCancel(filled) == IF filled THEN "readfill" ELSE "backoff"

\* after waitForOrderFill: read the fill, or cancel the order
FillWaitNext(filled) == IF filled THEN "readfill" ELSE "cancel"

\* what polymarketClient.getOrder(orderId) answers to a status poll: it
\* throws (status "error"), or gives the order's status and whether one of
\* its associate_trades is CONFIRMED
MaxPolls == 2              \* polls that fit into fillTimeout
PollAnswers ==
  [status : {"LIVE", "MATCHED", "CANCELLED", "REJECTED"}, confirmed : BOOLEAN]
    \cup {[status |-> "error", confirmed |-> FALSE]}
TimedOut == [status |-> "timeout", confirmed |-> FALSE]

\* a fill test that takes every final status for a fill
OrderFilledWhenFinal(answer) == answer.status \in {"MATCHED", "CANCELLED", "REJECTED"}

\* order.status === "MATCHED" || order.associate_trades?.some(CONFIRMED)
OrderFilled(answer) == answer.status = "MATCHED" \/ answer.confirmed

\* one pass of the polling loop: return true, return false, or sleep and poll
\* again (also after a poll that threw)
PollOutcome(answer) ==
  IF answer.status = "error" THEN "again"
  ELSE IF OrderFilled(answer) THEN "true"
  ELSE IF answer.status \in {"CANCELLED", "REJECTED"} THEN "false"
  ELSE "again"

\* waitForOrderFill(order.orderID, fillTimeout), one status poll per step:
\* true when a poll saw the order filled, false on CANCELLED, REJECTED or
\* when, after the sleep, fillTimeout has passed
BuyWaitForOrderFill ==
  /\ pc = "poll"
  /\ chain' = [chain EXCEPT !.io = TRUE]
  /\ \E answer \in PollAnswers, inTime \in BOOLEAN :
       LET out == PollOutcome(answer)
           b == [buy EXCEPT !.polls = @ + 1,
                            !.pollErrors = @ \/ answer.status = "error"]
           ended(filled, seen) ==
             /\ buy' = [Logged(b, Event(IF filled THEN "filled" ELSE "unfilled",
                                         buy, 0, buy.orderID, ""))
                          EXCEPT !.observed = seen,
                                 !.venueFilled = IF filled THEN @ \cup {buy.orderID}
                                                 ELSE @]
             /\ pc' = FillWaitNext(filled)
       IN  IF out = "true" THEN ended(TRUE, answer)
           ELSE IF out = "false" THEN ended(FALSE, answer)
           ELSE IF inTime /\ b.polls < MaxPolls
             THEN /\ buy' = b
                  /\ pc' = "poll"
           ELSE ended(FALSE, TimedOut)
  /\ UNCHANGED << op, buyTokens, result, close >>
  /\ UNCHANGED loopVars

\* polymarketClient.cancelOrder(order.orderID), a failure of which is only
\* logged; then the attempt throws
BuyCancelOrder ==
  /\ pc = "cancel"
  /\ chain' = [chain EXCEPT !.io = TRUE]
  /\ \E ok \in BOOLEAN :
       BuyCatch(Logged(buy, Event("cancel", buy, 0, buy.orderID,
                                  IF ok THEN "" ELSE "cancel failed")),
                PolymarketError(MsgNotFilled))
  /\ UNCHANGED << op, buyTokens, close >>
  /\ UNCHANGED loopVars

\* polymarketClient.getOrder(order.orderID) after the fill, and the result
BuyReadFill ==
  /\ pc = "readfill"
  /\ chain' = [chain EXCEPT !.io = TRUE]
  /\ \E answer \in {"error", "full", "tiny"}, m \in VenueMessages :
       IF answer = "error"
         THEN /\ BuyCatch(buy, PlainError(m))
              /\ UNCHANGED buyTokens
         ELSE /\ buyTokens' = IF answer = "full"
                                THEN MulDivFloor(buy.usdcAmount, PriceOne,
                                                 buy.bestAskPrice)
                                ELSE TinyFill
              /\ buy' = Logged(buy, Event("return", buy, buy.bestAskPrice,
                                          buy.orderID, ""))
              /\ result' = BuyResult
              /\ pc' = "done"
  /\ UNCHANGED << op, close >>
  /\ UNCHANGED loopVars

\* await new Promise(resolve => setTimeout(resolve, delay)); attempt++
BuyBackoff ==
  /\ pc = "backoff"
  /\ buy' = [Logged(buy, [Event("wait", buy, 0, 0, "")
                            EXCEPT !.ms = BackoffDelay(buy.attempt)])
               EXCEPT !.attempt = @ + 1, !.polls = 0, !.pollErrors = FALSE,
                      !.observed = NoObservation]
  /\ pc' = "book"
  /\ UNCHANGED << op, buyTokens, result, chain, close >>
  /\ UNCHANGED loopVars

----------------------------------------------------------------------------
(* closePosition *)

CloseLists == { << 1 >>, << 1, 2 >> }

\* the USDC (base units) the protocol pays the signer when the leg is closed
Proceeds(legId) == (2 * legId + 1) * USDC

ClosedResult == [kind |-> "closed", err |-> NoError, legIds |-> << >>,
                 metrics |-> NoMetrics]

\* the caller invokes closePosition(legIds)
CallClose ==
  /\ pc = "idle"
  /\ op' = "close"
  /\ \E ids \in CloseLists : close' = [NoClose EXCEPT !.legIds = ids, !.calls = 1]
  /\ pc' = "balanceBefore"
  /\ UNCHANGED << buyTokens, result, chain, buy >>
  /\ UNCHANGED loopVars

MaxCloseCalls == 2         \* closePosition calls with one leg list

\* closePosition(legIds) called again with the same list after a call that
\* threw: totalUSDC = 0 and the loop starts at the first leg; what the chain
\* holds (legs closed, transactions not yet mined, the balance) stays
CallCloseAgain ==
  /\ pc = "done"
  /\ op = "close"
  /\ result.kind = "error"
  /\ close.calls < MaxCloseCalls
  /\ close' = [close EXCEPT !.calls = @ + 1, !.idx = 1, !.totalUSDC = 0,
                            !.balanceBefore = 0, !.invoked = << >>,
                            !.failed = {}]
  /\ result' = NoResult
  /\ pc' = "balanceBefore"
  /\ UNCHANGED << op, buyTokens, chain, buy >>
  /\ UNCHANGED loopVars

\* const balanceBefore = await usdcContract.balanceOf(signer.address)
CloseBalanceBefore ==
  /\ pc = "balanceBefore"
  /\ chain' = [chain EXCEPT !.io = TRUE]
  /\ \E readOk \in BOOLEAN :
       IF readOk
         THEN /\ close' = [close EXCEPT !.balanceBefore = close.balance]
              /\ pc' = "close"
              /\ UNCHANGED result
         ELSE /\ Throw(PlainError("balanceOf failed"))
              /\ UNCHANGED close
  /\ UNCHANGED << op, buyTokens, buy >>
  /\ UNCHANGED loopVars

\* the node accepts a close transaction only if its execution would
\* succeed: the protocol's close of a leg that is already closed fails
CloseAccepted(closed, legId, answer) == answer /\ legId \notin closed

\* await protocolContract.close(legId): the promise settles when the node
\* has accepted or rejected the transaction, not when it is mined
CloseSubmit ==
  /\ pc = "close"
  /\ LET legId == close.legIds[close.idx] IN
       \E answer \in BOOLEAN :
         IF CloseAccepted(close.closed, legId, answer)
           THEN /\ chain' = [chain EXCEPT !.io = TRUE, !.txs = @ + 1]
                /\ close' = [close EXCEPT !.pending = Append(@, close.idx),
                                          !.invoked = Append(@, legId)]
                /\ pc' = "balanceAfter"
                /\ UNCHANGED result
           ELSE /\ chain' = [chain EXCEPT !.io = TRUE]
                /\ close' = [close EXCEPT !.invoked = Append(@, legId),
                                          !.failed = @ \cup {close.idx}]
                /\ Throw(PlainError("execution reverted"))
  /\ UNCHANGED << op, buyTokens, buy >>
  /\ UNCHANGED loopVars

\* const balanceAfter = await usdcContract.balanceOf(signer.address);
\* totalUSDC += Number(balanceAfter - balanceBefore); next leg or return
CloseBalanceAfter ==
  /\ pc = "balanceAfter"
  /\ chain' = [chain EXCEPT !.io = TRUE]
  /\ \E readOk \in BOOLEAN :
       IF readOk
         THEN /\ close' = [close EXCEPT
                             !.totalUSDC = @ + (close.balance - close.balanceBefore),
                             !.idx = @ + 1]
              /\ IF close.idx < Len(close.legIds)
                   THEN /\ pc' = "balanceBefore"
                        /\ UNCHANGED result
                   ELSE /\ pc' = "done"
                        /\ result' = ClosedResult
         ELSE /\ Throw(PlainError("balanceOf failed"))
              /\ UNCHANGED close
  /\ UNCHANGED << op, buyTokens, buy >>
  /\ UNCHANGED loopVars

\* the chain mines the oldest submitted close transaction: it closes the leg
\* and pays the signer, or it reverts
CloseMined ==
  /\ op = "close"
  /\ close.pending # << >>
  /\ LET j == Head(close.pending)
         legId == close.legIds[j]
     IN  \E success \in BOOLEAN :
           close' = IF success
                      THEN [close EXCEPT !.pending = Tail(@),
                                         !.closed = @ \cup {legId},
                                         !.balance = @ + Proceeds(legId),
                                         !.credited = @ + Proceeds(legId)]
                      ELSE [close EXCEPT !.pending = Tail(@),
                                         !.failed = @ \cup {j}]
  /\ UNCHANGED << pc, op, buyTokens, result, chain, buy >>
  /\ UNCHANGED loopVars

Next ==
  \/ Call
  \/ ValidateInputs
  \/ SetupPolymarket
  \/ CheckSufficientBalance
  \/ VerifyMarket
  \/ CalculateLeverageParams
  \/ SetupApprovals
  \/ BuyTokens
  \/ OpenLeg
  \/ ReadBalance
  \/ AfterLoop
  \/ SimulateLoop
  \/ CalculatePositionMetrics
  \/ CallBuy
  \/ BuyGetOrderBook
  \/ BuyPostOrder
  \/ BuyWaitForOrderFill
  \/ BuyCancelOrder
  \/ BuyReadFill
  \/ BuyBackoff
  \/ CallClose
  \/ CallCloseAgain
  \/ CloseBalanceBefore
  \/ CloseSubmit
  \/ CloseBalanceAfter
  \/ CloseMined

Spec == Init /\ [][Next]_vars

----------------------------------------------------------------------------
(* The estimated loop of simulatePosition, one iteration per step.  The class
   is in the file three times; the loop is the same statement in each copy
   but for the carry-forward line, and each copy takes its iteration count
   from its own calculateLeverageParams. *)

LoopCopies == {1, 2, 3}

\* leverageParams.loops of each copy for F = fN / FDen: in the third,
\* Math.min(Math.floor(Math.log(1 - maxLeverage * (1 - F)) / Math.log(F)) + 1, 10)
\* where 1 - maxLeverage * (1 - F) is 0 or 2^-53 in floating point, so the
\* minimum is the cap
SimLoops(r, fN) == IF r = 3 THEN LoopCap ELSE calculateLoops(r, fN)

\* parameter records validateInputs accepts and quotes with F in (0,1)
SimPrices == {40, 60, 95}
SimCapitals == {10, 20}
SimFs == {2, 10, 18, 19}

SimParams(price, capital) ==
  [marketConditionId |-> << "0x", 64 >>, longYes |-> TRUE,
   currentPrice |-> price, targetPrice |-> PriceOne - 1,
   timeframeSeconds |-> MinTimeframe, capitalUSDC |-> capital,
   maxSlippageBps |-> 0]

\* simulatePosition has its leverageParams: totalTokens = 0,
\* remainingUSDC = params.capitalUSDC, i = 0
SimInit ==
  /\ rev \in LoopCopies
  /\ pc = "simloop"
  /\ op = "simulate"
  /\ \E price \in SimPrices, capital \in SimCapitals :
       /\ params = SimParams(price, capital)
       /\ remainingUSDC = capital * SimUnit
  /\ \E fN \in SimFs :
       lev = [F |-> fN, rS |-> 0, rJ |-> 0, loops |-> SimLoops(rev, fN),
              maxLeverageNum |-> FDen, maxLeverageDen |-> FDen - fN]
  /\ legIds = << >>
  /\ totalTokensBought = 0
  /\ iter = 0
  /\ buyTokens = 0
  /\ result = NoResult
  /\ chain = Chain0
  /\ hist = NoHist
  /\ totalSlippage = 0
  /\ buy = NoBuy
  /\ close = NoClose
  /\ inst = NoInst

\* one pass through the loop body: buyTokens keeps tokensThisLoop
SimIterate ==
  /\ pc = "simloop"
  /\ iter < lev.loops
  /\ LET tokensThisLoop == MulDivFloor(remainingUSDC, PriceOne, params.currentPrice)
         next == SimBorrow(rev, tokensThisLoop, lev.F, params.currentPrice)
     IN  /\ buyTokens' = tokensThisLoop
         /\ totalTokensBought' = totalTokensBought + tokensThisLoop
         /\ remainingUSDC' = next
         /\ IF next < SimUnit
              THEN pc' = "simdone" /\ iter' = iter
              ELSE pc' = "simloop" /\ iter' = iter + 1
  /\ UNCHANGED << rev, op, params, lev, legIds, result, chain, hist,
                  totalSlippage, unit >>

\* the loop test fails: i = leverageParams.loops
SimExit ==
  /\ pc = "simloop"
  /\ ~(iter < lev.loops)
  /\ pc' = "simdone"
  /\ UNCHANGED << rev, op, params, lev, legIds, remainingUSDC, totalTokensBought,
                  iter, buyTokens, result, chain, hist, totalSlippage, unit >>

SimNext ==
  \/ SimIterate
  \/ SimExit

LoopSpec == SimInit /\ [][SimNext]_vars

----------------------------------------------------------------------------
(* setupPolymarket under concurrent callers of one instance *)

MaxSetupFailures == 1      \* createOrDeriveApiKey failures in one behaviour

\* what a step of setupPolymarket leaves alone
callVars ==
  << rev, pc, op, params, lev, legIds, remainingUSDC, totalTokensBought,
     iter, buyTokens, result, chain, hist, totalSlippage, buy, close >>

\* setupPolymarket up to its await: if (this.polymarketInitialized) return;
\* otherwise createOrDeriveApiKey() is requested and the caller suspends
SetupEnter ==
  \E c \in Callers :
    /\ inst.at[c] = "idle"
    /\ inst' = IF inst.polymarketInitialized
                 THEN [inst EXCEPT !.at[c] = "ready"]
               ELSE [inst EXCEPT !.at[c] = "deriving", !.derivations = @ + 1]
    /\ UNCHANGED callVars

\* the await resolves: this.polymarketClient = new ClobClient(..., creds, ...);
\* this.polymarketInitialized = true.  Or it rejects and the call throws.
SetupResume ==
  \E c \in Callers :
    /\ inst.at[c] = "deriving"
    /\ \E ok \in BOOLEAN :
         IF ok
           THEN inst' = [inst EXCEPT !.at[c] = "ready",
                                     !.polymarketClient = @ + 1,
                                     !.polymarketInitialized = TRUE]
         ELSE /\ inst.failures < MaxSetupFailures
              /\ inst' = [inst EXCEPT !.at[c] = "failed", !.failures = @ + 1]
    /\ UNCHANGED callVars

\* a caller whose setup threw calls again
SetupAgain ==
  \E c \in Callers :
    /\ inst.at[c] = "failed"
    /\ inst' = [inst EXCEPT !.at[c] = "idle"]
    /\ UNCHANGED callVars

\* openTargetPosition past await this.setupPolymarket(): the first venue
\* operation, this.polymarketClient.getOrderBook(tokenId)
VenueOperation ==
  \E c \in Callers :
    /\ c = "openTargetPosition"
    /\ inst.at[c] = "ready"
    /\ inst' = [inst EXCEPT !.at[c] = "venue",
                            !.onNull = @ \/ inst.polymarketClient = 0]
    /\ UNCHANGED callVars

SetupInit ==
  /\ rev = 2
  /\ pc = "idle"
  /\ op = "none"
  /\ params = NoParams
  /\ lev = NoLev
  /\ legIds = << >>
  /\ remainingUSDC = 0
  /\ totalTokensBought = 0
  /\ iter = 0
  /\ buyTokens = 0
  /\ result = NoResult
  /\ chain = Chain0
  /\ hist = NoHist
  /\ totalSlippage = 0
  /\ buy = NoBuy
  /\ close = NoClose
  /\ inst = NoInst

SetupNext ==
  \/ SetupEnter
  \/ SetupResume
  \/ SetupAgain
  \/ VenueOperation

SetupSpec == SetupInit /\ [][SetupNext]_vars

----------------------------------------------------------------------------
(* Properties *)

\* an iteration of the leverage loop failed in the order executor or the leg opener
LoopFailedAt(k) ==
  op = "open" /\ hist.failIter = k /\ hist.failStep \in {"buy", "leg"}

\* C1: when iterations 1..k-1 completed and iteration k >= 2 fails in the order
\* executor or the leg opener, nothing is thrown by the loop: the legs kept are
\* exactly the k-1 legs the protocol opened, in order, and once the read-back
\* succeeds the call returns a position with exactly these legIds; the call
\* ends in an error only if the read-back failed.
C1_PartialPosition ==
  \A k \in 2 .. LoopCap :
    LoopFailedAt(k) =>
      /\ Len(legIds) = k - 1
      /\ legIds = chain.legs
      /\ pc \in {"after", "metrics", "done"}
      /\ (pc = "done" /\ hist.readback = "ok") =>
           /\ result.kind = "position"
           /\ result.legIds = chain.legs
      /\ (pc = "done" /\ result.kind = "error") => hist.readback = "failed"

C1_Witness ==
  /\ pc = "done"
  /\ LoopFailedAt(3)
  /\ hist.failStep = "leg"
  /\ result.kind = "position"
  /\ result.legIds = << 1, 2 >>

\* C2: when the first iteration fails in the order executor or the leg opener,
\* the call is over at once: no further iteration, no order beyond the first,
\* no position, and the caller gets the very error that was thrown.
C2_FirstIterationPropagates ==
  LoopFailedAt(1) =>
    /\ pc = "done"
    /\ iter = 0
    /\ legIds = << >>
    /\ chain.orders <= 1
    /\ result.kind = "error"
    /\ result.err = hist.failErr
    /\ result.err.kind \in {"PolymarketError", "ProtocolError"}

C2_Witness ==
  /\ pc = "done"
  /\ LoopFailedAt(1)
  /\ hist.failStep = "leg"
  /\ result.err = ProtocolError("Protocol is paused")

\* C3: every LeveragePosition returned by openTargetPosition or
\* simulatePosition has a non-empty legIds sequence (stated for the quotes the
\* data model allows, 0 < F < 1).
C3_ReturnedPositionHasLegs ==
  (result.kind = "position" /\ hist.quote.F \in 1 .. (FDen - 1)) =>
    Len(result.legIds) > 0

\* the quote's F is inside (0,1) and the leverage parameters were derived from it
DerivedFromValidF == lev # NoLev /\ lev.F \in 1 .. (FDen - 1)

\* C4: for every quoted F with 0 < F < 1 the loop count of
\* calculateLeverageParams is at least 1.
C4_LoopsAtLeastOne == DerivedFromValidF => lev.loops >= 1

\* Math.log of the convergence threshold the revision uses (0.1 or 0.01)
LnEpsilon(r) == IF r = 1 THEN LnTenth ELSE LnHundredth

\* C5: for every F in (0,1) the loop count satisfies F^loops <= epsilon,
\* that is loops * ln(F) <= ln(epsilon).
C5_ConvergenceCaptured ==
  DerivedFromValidF => lev.loops * LnF(lev.F) <= LnEpsilon(rev)

\* C6: no hard cap: for every F in (0,1) the loop count is exactly
\* ceil(ln(epsilon) / ln(F)), and maxLeverage is exactly 1 / (1 - F).
C6_NoHardCap ==
  DerivedFromValidF =>
    /\ lev.loops = CeilDiv(LnEpsilon(rev), LnF(lev.F))
    /\ lev.maxLeverageNum * (FDen - lev.F) = lev.maxLeverageDen * FDen

\* timeframeSeconds >= 0.95 * ((1 - F) / (F * R)) * 31536000 for the quote q
SafeRunwayReached(q, term) ==
  q.rS + q.rJ > 0 /\ RunwayExceeded(q.F, q.rS + q.rJ, term)

\* C7: for a quote with F in (0,1) the call is rejected with the runway error
\* exactly when R > 0 and timeframeSeconds reaches the safe runway.
C7_RunwayRule ==
  (hist.quoted /\ hist.quote.F \in 1 .. (FDen - 1)) =>
    ((pc = "done" /\ result = Thrown(ValidationError("Term exceeds safe runway")))
       <=> SafeRunwayReached(hist.quote, params.timeframeSeconds))

\* the parameter record satisfies every rule of TargetPositionParams
ValidParams(p) ==
  /\ StartsWith0x(p.marketConditionId)
  /\ 0 < p.currentPrice /\ p.currentPrice < PriceOne
  /\ 0 < p.targetPrice /\ p.targetPrice < PriceOne
  /\ p.longYes => p.targetPrice > p.currentPrice
  /\ ~p.longYes => p.targetPrice < p.currentPrice
  /\ MinTimeframe <= p.timeframeSeconds /\ p.timeframeSeconds <= YEAR_SECONDS
  /\ p.capitalUSDC >= MinCapital
  /\ JsLe(0, p.maxSlippageBps) /\ JsLe(p.maxSlippageBps, MaxSlippage)

C9_ValidationErrorsBeforeSideEffects ==
  (op = "open" /\ pc = "done" /\ result.kind = "error"
     /\ result.err.kind = "ValidationError") =>
    (chain.txs = 0 /\ chain.orders = 0)

\* the parameters pass the market-id and price-range checks and the direction
\* is wrong for longYes
WrongDirection(p) ==
  /\ StartsWith0x(p.marketConditionId)
  /\ 0 < p.currentPrice /\ p.currentPrice < PriceOne
  /\ 0 < p.targetPrice /\ p.targetPrice < PriceOne
  /\ \/ p.longYes /\ p.targetPrice <= p.currentPrice
     \/ ~p.longYes /\ p.targetPrice >= p.currentPrice

\* C10: for parameters that pass the market-id and price-range checks, a wrong
\* direction (longYes with target <= current, or not longYes with target >=
\* current) ends the call with a ValidationError mentioning 'price direction'.
C10_DirectionError ==
  (op \in {"open", "simulate"} /\ WrongDirection(params)) =>
    /\ pc \in {"validate", "done"}
    /\ pc = "done" =>
         /\ result.kind = "error"
         /\ result.err.kind = "ValidationError"
         /\ MentionsPriceDirection(result.err.msg)

C10_Witness ==
  /\ pc = "done"
  /\ op \in {"open", "simulate"}
  /\ params.longYes
  /\ params.targetPrice = params.currentPrice
  /\ params.currentPrice = 40
  /\ result.err = ValidationError(MsgDirectionYes)

\* C11: validateInputs accepts a parameter record if and only if the record
\* satisfies every rule (0x prefix, both prices inside (0,1), direction
\* consistent with longYes, 60 <= timeframeSeconds <= 31536000,
\* capitalUSDC >= 10, 0 <= maxSlippageBps <= 5000); every other record is
\* rejected with a ValidationError.
C11_AcceptsExactlyValidRecords ==
  hist.validated # "none" =>
    /\ (hist.validated = "accepted") <=> ValidParams(params)
    /\ hist.validated = "rejected" =>
          (result.kind = "error" /\ result.err.kind = "ValidationError")

\* JavaScript equality of numbers: NaN equals nothing
JsEq(a, b) == a # NaN /\ b # NaN /\ a = b

\* C18: in every LeveragePosition produced by calculatePositionMetrics,
\* fees.total equals protocolSenior + protocolJunior + polymarketSlippage + gas
\* and pnl.atTarget equals (targetPrice - currentPrice) * totalExposure - fees.total.
C18_FeeAdditivity ==
  result.kind = "position" =>
    LET m == result.metrics
        gross == (params.targetPrice - params.currentPrice) * m.totalExposure
                   * (USDC \div (PriceOne * SimUnit))
    IN  /\ JsEq(m.fees.total,
                JsAdd(JsAdd(JsAdd(m.fees.protocolSenior, m.fees.protocolJunior),
                            m.fees.polymarketSlippage), m.fees.gas))
        /\ JsEq(m.pnl.atTarget, JsSub(gross, m.fees.total))

\* price + num / den > price in JavaScript arithmetic (den >= 0): the
\* quotient is NaN for a NaN or 0 / 0, +Infinity for num > 0 = den
BreakevenAbovePrice(b) == JsGt(b.num, 0)

\* C19: for every valid parameter record, the position returned by
\* simulatePosition has pnl.breakeven strictly greater than currentPrice.
C19_BreakevenAboveCurrentPrice ==
  (op = "simulate" /\ result.kind = "position" /\ ValidParams(params)) =>
    /\ result.metrics.pnl.breakeven.price = params.currentPrice
    /\ BreakevenAbovePrice(result.metrics.pnl.breakeven)

\* (capital / price) * (1 + F + ... + F^(n-1)) in 1/SimUnit token: the sum of
\* n terms from `term` on, each F times the one before
RECURSIVE GeometricTokens(_, _, _)
GeometricTokens(n, term, fN) ==
  IF n <= 0 THEN 0
  ELSE term + GeometricTokens(n - 1, MulDivFloor(term, fN, FDen), fN)

\* a is within 0.1 % of b
About(a, b) == (IF a > b THEN a - b ELSE b - a) * 1000 <= b

\* C20: for F = 0.9, capital 1000 USDC, price 0.40 and 10 loops the simulation
\* accumulates about 16,283 tokens and reports an effectiveLeverage of about
\* 6.51 (total tokens * price / capital); in general, when no early stop
\* fires, n simulated loops yield (capital / price) * (1 - F^n) / (1 - F) tokens.
C20_GeometricSeries ==
  (op = "simulate" /\ result.kind = "position") =>
    LET m == result.metrics
        first == MulDivFloor(params.capitalUSDC * SimUnit, PriceOne,
                             params.currentPrice)
    IN  /\ (lev.F = 18 /\ params.capitalUSDC = 1000 /\ params.currentPrice = 40
              /\ lev.loops = 10) =>
               /\ About(m.totalExposure, 16283 * SimUnit)
               /\ About(m.effectiveLeverage, 651)
               /\ About(m.effectiveLeverage,
                        (m.totalExposure * params.currentPrice)
                          \div (params.capitalUSDC * SimUnit))
        /\ (lev.loops >= 1 /\ remainingUSDC >= SimUnit) =>
               About(m.totalExposure, GeometricTokens(lev.loops, first, lev.F))

\* the entries of the buy call's log that are of kind e
Events(e) == {i \in DOMAIN buy.log : buy.log[i].e = e}

\* the buy call is over and every attempt it made ended in a fill timeout
EveryAttemptTimedOut ==
  /\ op = "buy" /\ pc = "done"
  /\ Events("filled") = {}
  /\ \A i \in Events("book") : \E j \in Events("unfilled") :
       buy.log[j].a = buy.log[i].a

\* C12: one call of buyTokensPolymarket with maxRetries = n submits at most
\* n + 1 orders; when every attempt ends in a fill timeout it submits exactly
\* n + 1 orders and then fails with a PolymarketError; and it never submits
\* an order after an attempt has been observed filled.
C12_BoundedOrders ==
  op = "buy" =>
    /\ chain.orders <= buy.maxRetries + 1
    /\ Cardinality(Events("post")) = chain.orders
    /\ EveryAttemptTimedOut =>
         /\ chain.orders = buy.maxRetries + 1
         /\ result.kind = "error"
         /\ result.err.kind = "PolymarketError"
    /\ \A i \in Events("filled"), j \in Events("post") : j < i

\* the failures the executor treats as final whatever budget remains
NoLiquidityOrInvalidPrice(m) == m \in {MsgNoLiquidity, MsgInvalidPrice}

\* C13: a no-liquidity or invalid-price failure of an attempt ends the call at
\* once with that PolymarketError (nothing follows it: no wait, no order-book
\* read, no order), whatever retry budget remains; every other failure of an
\* attempt is retried while budget remains.
C13_NonRetryableFailures ==
  op = "buy" =>
    \A i \in Events("fail") :
      IF NoLiquidityOrInvalidPrice(buy.log[i].msg)
        THEN /\ i = Len(buy.log)
             /\ pc = "done"
             /\ result = Thrown(PolymarketError(buy.log[i].msg))
        ELSE buy.log[i].a < buy.maxRetries =>
               IF i = Len(buy.log) THEN pc = "backoff"
               ELSE buy.log[i + 1].e = "wait"

\* C14: whenever an order's fill wait ends without a fill, the cancellation
\* of that order is the next thing the executor does at the venue, before
\* any further order-book read or order; and every order is sized and priced
\* from the best ask read in the same attempt.
C14_CancelThenFreshQuote ==
  op = "buy" =>
    /\ \A i \in Events("unfilled") :
         IF i = Len(buy.log) THEN pc = "cancel"
         ELSE /\ buy.log[i + 1].e = "cancel"
              /\ buy.log[i + 1].id = buy.log[i].id
    /\ \A j \in Events("post") :
         /\ j > 1
         /\ buy.log[j - 1].e = "book"
         /\ buy.log[j - 1].a = buy.log[j].a
         /\ buy.log[j - 1].ask = buy.log[j].ask

\* an order at 0.50 timed out and was cancelled, and the second attempt
\* placed its order at the fresh best ask 0.60
C14_Witness ==
  /\ op = "buy"
  /\ \E i \in Events("unfilled"), j \in Events("post") :
       /\ i < j
       /\ buy.log[i + 1].e = "cancel"
       /\ buy.log[i - 1].ask = 50
       /\ buy.log[j].ask = 60
       /\ buy.log[j].a = 1

\* C15: closePosition closes the legs strictly in the order given; if closing
\* the leg at position j fails, close is invoked for no leg after position j
\* and the call fails instead of returning a sum.  (No operation of the SDK
\* reopens a leg, so the legs closed before j stay closed.)
C15_CloseStopsAtFailure ==
  op = "close" =>
    /\ Len(close.invoked) <= Len(close.legIds)
    /\ \A i \in DOMAIN close.invoked : close.invoked[i] = close.legIds[i]
    /\ \A j \in close.failed :
         /\ Len(close.invoked) <= j
         /\ result.kind # "closed"

\* C16: every failure of closePosition caused by a leg close failing
\* (revert, rejected transaction or failed balance read) reaches the caller
\* as a ProtocolError.
C16_CloseFailsWithProtocolError ==
  (op = "close" /\ pc = "done" /\ result.kind = "error") =>
    result.err.kind = "ProtocolError"

\* C17: when every leg closed successfully, the value closePosition returned
\* equals the USDC credited to the signer by the close transactions of the
\* given legs.
C17_ReturnsCreditedProceeds ==
  (op = "close" /\ result.kind = "closed" /\ close.pending = << >>
     /\ close.failed = {}) =>
    close.totalUSDC = close.credited

\* C21: across the iterations of the simulatePosition loop, for every valid
\* price and every F in (0,1), the cumulative totalTokens never decreases,
\* remainingUSDC strictly decreases from one iteration to the next, and the
\* loop halts as soon as remainingUSDC drops below 1.
C21_SimulatedCapitalMonotone ==
  [][SimIterate =>
       /\ totalTokensBought' >= totalTokensBought
       /\ remainingUSDC' < remainingUSDC
       /\ (remainingUSDC' < SimUnit => pc' = "simdone")]_vars

\* the steps a simulatePosition call can be at: none of them reads the USDC
\* balance, submits a transaction, or places or cancels an order
SimulateSteps == {"validate", "setup", "quote", "simloop", "metrics", "done"}

\* C22: simulatePosition changes nothing outside the SDK: for every input and
\* every outcome it submits no transaction (verifyMarket, approve,
\* setApprovalForAll, open, close), places or cancels no venue order, and its
\* capital carry-forward never reads the on-chain balance.
C22_SimulationIsReadOnly ==
  op = "simulate" =>
    /\ chain.txs = 0
    /\ chain.orders = 0
    /\ chain.legs = << >>
    /\ pc \in SimulateSteps

\* a simulation that iterated returned its estimate after network reads
C22_Witness ==
  /\ op = "simulate"
  /\ pc = "done"
  /\ result.kind = "position"
  /\ Len(result.legIds) > 0
  /\ totalTokensBought > 0
  /\ chain.io

\* C23: for every valid parameter record (either direction, minimum capital
\* and extreme prices included) and every quote with F in (0,1), the position
\* simulatePosition returns has totalExposure > 0 and effectiveLeverage >= 1.
C23_SimulatedPositionLevered ==
  (op = "simulate" /\ result.kind = "position" /\ ValidParams(params)
     /\ lev.F > 0 /\ lev.F < FDen) =>
    /\ result.metrics.totalExposure > 0
    /\ result.metrics.effectiveLeverage >= 100

\* C24: every error openTargetPosition or simulatePosition surfaces to the
\* caller, whatever step failed (venue client setup, balance read, market
\* verification, quote, approvals, order, leg opening, metrics read-back), is
\* a ValidationError, a PolymarketError or a ProtocolError.
C24_OnlyKindedErrorsEscape ==
  (op \in {"open", "simulate"} /\ result.kind = "error") => Typed(result.err)

\* C25: during one openTargetPosition or closePosition call the SDK never
\* submits a transaction while a transaction it submitted earlier in that
\* call (verifyMarket, approve, setApprovalForAll, open, close) is still
\* unconfirmed: at most one transaction is in flight at any time.
C25_OneTransactionInFlight ==
  op \in {"open", "close"} =>
    /\ ~chain.overlap
    /\ Len(close.pending) <= 1

C27_ExponentialBackoff ==
  op = "buy" =>
    /\ \A i \in DOMAIN buy.log :
         buy.log[i].e = "wait" =>
           /\ buy.log[i].a < buy.maxRetries
           /\ buy.log[i].ms * Pow(2, buy.log[i].a) = RetryDelayMs * Pow(3, buy.log[i].a)
           /\ i > 1 /\ buy.log[i - 1].e = "fail" /\ buy.log[i - 1].a = buy.log[i].a
           /\ \A j \in DOMAIN buy.log :
                (buy.log[j].e = "wait" /\ buy.log[j].a = buy.log[i].a + 1) =>
                  /\ 2 * buy.log[j].ms = 3 * buy.log[i].ms
                  /\ buy.log[j].ms > buy.log[i].ms
    /\ \A i \in DOMAIN buy.log :
         (buy.log[i].e = "fail" /\ buy.log[i].a = buy.maxRetries) =>
           /\ i = Len(buy.log)
           /\ pc = "done"
           /\ result.kind = "error"
    /\ (pc = "book" /\ buy.attempt > 0) =>
         /\ buy.log[Len(buy.log)].e = "wait"
         /\ buy.log[Len(buy.log)].a = buy.attempt - 1

\* three failed attempts of a call with maxRetries = 2: waits of 2000 ms and
\* 3000 ms, and no wait after the third failure
C27_Witness ==
  /\ op = "buy"
  /\ pc = "done"
  /\ result.kind = "error"
  /\ buy.maxRetries = 2
  /\ buy.attempt = 2
  /\ \E i, j \in DOMAIN buy.log :
       /\ i < j
       /\ buy.log[i].e = "wait" /\ buy.log[i].ms = 2000
       /\ buy.log[j].e = "wait" /\ buy.log[j].ms = 3000
  /\ buy.log[Len(buy.log)].e = "fail"

\* C28: every error thrown out of buyTokensPolymarket is a PolymarketError,
\* whatever failed inside an attempt (order-book read, order submission,
\* cancellation, fill read-back) and for every value of maxRetries, also
\* when no attempt is made.
C28_BuyThrowsOnlyPolymarketError ==
  (op = "buy" /\ result.kind = "error") =>
    /\ result.err.kind = "PolymarketError"
    /\ buy.maxRetries < 0 => (buy.log = << >> /\ result.err.msg = MsgExhausted)

\* the venue client threw in the fill read-back of the last attempt and the
\* caller got the wrapped error
C28_Witness ==
  /\ op = "buy"
  /\ result.kind = "error"
  /\ Len(buy.log) >= 2
  /\ buy.log[Len(buy.log) - 1].e = "filled"
  /\ buy.log[Len(buy.log)].e = "fail"
  /\ result.err = PolymarketError("Order failed: Request timed out")

\* C29: openProtocolLeg derives the collateral-unit count as
\* floor(tokenAmount / 10^6); when that count is 0 it throws ProtocolError
\* for insufficient tokens without submitting any open transaction, and it
\* returns a leg identifier only when the open transaction's receipt reports
\* success and contains the leg-opened event, the identifier being the one
\* carried by that event.
C29_LegOpenerContract ==
  op = "open" =>
    /\ ((pc = "readback" \/ hist.failStep = "leg") /\ chain.receipt.sent) =>
         /\ chain.receipt.sets >= 1
         /\ chain.receipt.sets * USDC <= buyTokens
         /\ buyTokens < (chain.receipt.sets + 1) * USDC
    /\ (hist.failStep = "leg" /\ buyTokens < USDC) =>
         /\ hist.failErr = ProtocolError("Insufficient tokens")
         /\ ~chain.receipt.sent
    /\ pc = "readback" =>
         /\ chain.receipt.sent
         /\ chain.receipt.status = 1
         /\ chain.receipt.event # 0
         /\ legIds[Len(legIds)] = chain.receipt.event
    /\ legIds = chain.legs
    /\ (hist.failStep = "leg" /\ chain.receipt.sent) =>
         (chain.receipt.status # 1 \/ chain.receipt.event = 0)

\* the second leg of a call was opened: the opener returned the id 2 that
\* the LegOpened event of its transaction carried
C29_Witness ==
  /\ op = "open"
  /\ pc = "readback"
  /\ legIds = << 1, 2 >>
  /\ chain.receipt = [sent |-> TRUE, sets |-> 10, status |-> 1, event |-> 2]

\* C30: within openTargetPosition the steps of the loop are causally
\* sequential: in each iteration the leg opener is invoked only after that
\* iteration's order was filled and with exactly the tokens that order
\* returned; the balance is re-read only after the leg's transaction is
\* final; and the next iteration's order is placed only after that balance
\* read, with the observed balance as its amount (the first iteration uses
\* capitalUSDC * 10^6).
C30_LoopStepsInOrder ==
  op = "open" =>
    /\ (pc = "leg" \/ pc = "readback" \/ hist.failStep = "leg") =>
         /\ chain.lastOrder.filled
         /\ chain.lastOrder.iter = iter
         /\ chain.lastOrder.tokens = buyTokens
         /\ chain.orders = iter + 1
    /\ ((pc = "readback" \/ hist.failStep = "leg") /\ chain.receipt.sent) =>
         chain.receipt.sets = Sets(chain.lastOrder.tokens)
    /\ pc = "readback" =>
         /\ chain.inFlight = 0
         /\ chain.receipt.status = 1
         /\ Len(legIds) = iter + 1
    /\ (pc = "buy" /\ iter = 0) => remainingUSDC = params.capitalUSDC * USDC
    /\ (pc = "buy" /\ iter > 0) =>
         /\ remainingUSDC = chain.balance
         /\ Len(legIds) = iter
         /\ chain.orders = iter
    /\ (chain.orders > 0 /\ chain.lastOrder.iter = 0) =>
         chain.lastOrder.amount = params.capitalUSDC * USDC
    /\ (pc \in {"leg", "readback"} /\ iter > 0) =>
         chain.lastOrder.amount = chain.balance

\* the second iteration's leg was opened: its order was placed for the
\* 5 USDC the balance read of the first iteration observed
C30_Witness ==
  /\ op = "open"
  /\ pc = "readback"
  /\ iter = 1
  /\ legIds = << 1, 2 >>
  /\ chain.balance = 5250000
  /\ chain.lastOrder = [iter |-> 1, amount |-> 5250000, filled |-> TRUE,
                        tokens |-> 10500000]

\* C31: openTargetPosition never places a buy order for less than 1 USDC
\* (10^6 base units): once the balance observed after a leg opening is below
\* that threshold the loop stops, returning the legs opened so far even if
\* fewer than `loops` iterations have run; and the number of legs opened
\* never exceeds `loops`.
C31_NoOrderBelowOneUSDC ==
  op = "open" =>
    /\ chain.orders > 0 => chain.lastOrder.amount >= USDC
    /\ pc = "buy" => remainingUSDC >= USDC
    /\ (Len(legIds) > 0 /\ chain.balance < USDC /\ pc # "readback") =>
         /\ pc \in {"after", "metrics", "done"}
         /\ chain.orders = Len(legIds)
         /\ result.kind = "position" => result.legIds = legIds
    /\ Len(legIds) > 0 => Len(legIds) <= lev.loops
    /\ Len(chain.legs) = Len(legIds)

\* the balance read after the first leg was 0.5 USDC: the call returned that
\* one leg although four iterations were planned
C31_Witness ==
  /\ op = "open"
  /\ pc = "done"
  /\ chain.balance = 750000
  /\ lev.loops = 4
  /\ chain.orders = 1
  /\ result.kind = "position"
  /\ result.legIds = << 1 >>

\* C32: within one buyTokensPolymarket call at most one of the orders it
\* submitted is ever filled at the venue, for every interleaving of the
\* venue's matching with the executor's poll, cancel and retry steps: the
\* USDC committed to fills never exceeds usdcAmount.
C32_AtMostOneOrderFilled ==
  op = "buy" =>
    /\ Cardinality(buy.venueFilled) <= 1
    /\ Cardinality(buy.venueFilled) * buy.usdcAmount <= buy.usdcAmount

\* C33: in openTargetPosition the caller's own funds committed to buy orders
\* never exceed capitalUSDC: for every starting wallet balance >= capitalUSDC
\* the amount ordered in an iteration after the first is at most the USDC
\* borrowed by the preceding leg, never the wallet's other USDC.
C33_OwnFundsWithinCapital ==
  (op = "open" /\ chain.start >= params.capitalUSDC * USDC) =>
    /\ (pc \in {"leg", "readback"} /\ iter > 0) =>
         chain.lastOrder.amount <= chain.borrowed
    /\ pc \in {"leg", "readback"} =>
         chain.start - (chain.balance - chain.lastOrder.amount)
           <= params.capitalUSDC * USDC

\* C34: for one SDK instance, setupPolymarket derives API credentials and
\* constructs the authenticated venue client at most once, for every
\* interleaving of concurrent callers; a failed setup leaves the instance
\* uninitialized so that a later call retries; and no venue operation is
\* invoked on the client before a setup has completed.
C34_ClientSetUpOnce ==
  /\ inst.polymarketClient <= 1
  /\ inst.derivations <= 1 + inst.failures
  /\ inst.polymarketInitialized <=> inst.polymarketClient > 0
  /\ ~inst.onNull

\* C35: openTargetPosition can be performed repeatedly on the same market:
\* a call for a market that was verified before (by an earlier call or by
\* anyone else) does not fail at the market check, it goes on towards the
\* leverage loop.
C35_VerifiedMarketPassesCheck ==
  (op = "open" /\ chain.verifiedBefore) =>
    ~(result.kind = "error" /\ result.err = OpenCatch(ValidationError("Invalid market")))

\* C36: for every parameter record accepted by validateInputs, in either
\* direction, the gross PnL at target reported by the metrics calculator,
\* pnl.atTarget + fees.total, is strictly positive.
C36_GrossPnLAtTargetPositive ==
  (op \in {"open", "simulate"} /\ result.kind = "position") =>
    JsAdd(result.metrics.pnl.atTarget, result.metrics.fees.total) > 0

\* C37: in every position returned by openTargetPosition, totalExposure
\* accounts only for tokens that were collateralized in one of the returned
\* legs: tokens bought in an iteration whose leg opening then failed are not
\* counted in the returned position.
C37_ExposureIsCollateralized ==
  (op = "open" /\ result.kind = "position") =>
    result.metrics.totalExposure = Exposure("open", chain.collateral)

\* C38: closePosition is resumable: a call repeated with the same full leg
\* list after a failure gets past the legs that are already closed, so that
\* it closes the remaining legs; when such a call fails at a close while
\* legs of the list are still open, it failed at a leg that is still open.
C38_CloseIsResumable ==
  (/\ op = "close" /\ close.calls >= 2
   /\ pc = "done" /\ result.kind = "error"
   /\ close.idx \in close.failed
   /\ close.pending = << >>
   /\ \E k \in DOMAIN close.legIds : close.legIds[k] \notin close.closed) =>
    close.legIds[close.idx] \notin close.closed

====
